---- MODULE Spec2Model ----
(***************************************************************************)
(* Model of src/Implementacao_Deflexao_Analitica.py: class linhaElastica,  *)
(* the analytical elastic-line (beam deflection) engine.                   *)
(*                                                                         *)
(* Numbers.  The program computes with Python / numpy floats.  A number is *)
(* modelled as an exact fraction [n, d] in lowest terms with d > 0, so the *)
(* model states the algebra of the formulas and not binary64 rounding.     *)
(* d = 0 encodes the non-finite values numpy produces on a division by     *)
(* zero: n = 1 is +inf, n = -1 is -inf and n = 0 is nan.  Query positions  *)
(* and loads are float sequences (the docstrings' "float"/"array_like" in  *)
(* metres and newtons), so np.zeros_like(x) is a float array.              *)
(***************************************************************************)
EXTENDS Integers, Sequences, FiniteSets, TLC

VARIABLES
    L, E, I, P, x,      \* the fields of the linhaElastica instance
    op,                 \* the method called last ("__init__" after construction)
    args,               \* the arguments of that call
    ret,                \* what that call returned
    printed,            \* what that call printed ("" when nothing)
    exc,                \* the exception that call let reach the caller ("" when none:
                        \* both evaluations catch everything in a bare except)
    ctor, lastP, lastx, lastI,  \* history: constructor arguments, arguments of the last set_P, last I given
    everFailed          \* history: some evaluation so far took a failure branch

vars == <<L, E, I, P, x, op, args, ret, printed, exc,
          ctor, lastP, lastx, lastI, everFailed>>

fields == <<L, E, I, P, x>>

----------------------------------------------------------------------------
(* Bounds of the model *)

MaxLoads == 2
MaxQuery == 2
MaxLoadsEval == 2
MaxQueryEval == 2

----------------------------------------------------------------------------
(* Exact arithmetic on fractions, extended with numpy's non-finite values *)

Abs(n) == IF n < 0 THEN -n ELSE n

Sign(n) == IF n < 0 THEN -1 ELSE IF n > 0 THEN 1 ELSE 0

RECURSIVE GCD(_, _)
GCD(a, b) == IF b = 0 THEN a ELSE GCD(b, a % b)

\* a fraction is [n, d] with d >= 0; Frac gives n/d (d # 0) in lowest terms with
\* d > 0, the form of every number held in the state
Reduce(n, d, g) == [n |-> n \div g, d |-> d \div g]

Frac(n, d) == IF d < 0 THEN Reduce(-n, -d, GCD(Abs(n), -d)) ELSE Reduce(n, d, GCD(Abs(n), d))

R(k) == [n |-> k, d |-> 1]

NaN == [n |-> 0, d |-> 0]

IsFinite(a) == a.d # 0

IsZero(a) == a.d # 0 /\ a.n = 0

\* a = b as numbers (nan equals nothing)
REq(a, b) ==
    IF IsFinite(a) /\ IsFinite(b) THEN a.n * b.d = b.n * a.d
    ELSE a = b /\ a # NaN

RNeg(a) == [n |-> -a.n, d |-> a.d]

RAdd(a, b) ==
    IF IsFinite(a) /\ IsFinite(b) THEN Frac(a.n * b.d + b.n * a.d, a.d * b.d)
    ELSE IF a = NaN \/ b = NaN THEN NaN
    ELSE IF ~IsFinite(a) /\ ~IsFinite(b) THEN (IF a = b THEN a ELSE NaN)
    ELSE IF IsFinite(a) THEN b ELSE a

RSub(a, b) == RAdd(a, RNeg(b))

RMul(a, b) ==
    IF IsFinite(a) /\ IsFinite(b) THEN [n |-> a.n * b.n, d |-> a.d * b.d]
    ELSE IF a = NaN \/ b = NaN \/ IsZero(a) \/ IsZero(b) THEN NaN
    ELSE [n |-> Sign(a.n) * Sign(b.n), d |-> 0]

\* a / b where a numpy float takes part: a zero divisor gives inf or nan
RDiv(a, b) ==
    IF IsFinite(a) /\ IsFinite(b) /\ b.n > 0 THEN [n |-> a.n * b.d, d |-> a.d * b.n]
    ELSE IF IsFinite(a) /\ IsFinite(b) /\ b.n < 0 THEN [n |-> -(a.n * b.d), d |-> -(a.d * b.n)]
    ELSE IF IsFinite(a) /\ IsZero(b) THEN [n |-> Sign(a.n), d |-> 0]
    ELSE IF IsFinite(a) /\ b # NaN THEN R(0)
    ELSE IF a = NaN \/ ~IsFinite(b) THEN NaN
    ELSE [n |-> a.n * (IF b.n < 0 THEN -1 ELSE 1), d |-> 0]

\* a < b; a comparison with nan is false
RLt(a, b) ==
    IF IsFinite(a) /\ IsFinite(b) THEN a.n * b.d < b.n * a.d
    ELSE IF a = NaN \/ b = NaN THEN FALSE
    ELSE IF ~IsFinite(a) THEN a.n < 0 /\ a # b
    ELSE b.n > 0

Pow2(a) == RMul(a, a)

Pow3(a) == RMul(RMul(a, a), a)

----------------------------------------------------------------------------
(* Python values *)

\* None, and a sequence object (a list or a numpy array) holding s
None == [isNone |-> TRUE, v |-> <<>>]

Some(s) == [isNone |-> FALSE, v |-> s]

Self == [self |-> TRUE, val |-> <<>>]

Value(s) == [self |-> FALSE, val |-> s]

MsgLoad == "Houve um erro, o carregamento foi definido?"

\* the message of line 117, its accent dropped
MsgInertia == "Houve um erro, o momento de inercia foi definido?"

\* np.zeros_like(xq): one float zero for each query position
zeros_like(xq) == [i \in 1..Len(xq) |-> R(0)]

----------------------------------------------------------------------------
(* get_y: the deflection at each query position, by superposition *)

\* get_y_term with the piecewise definition forgotten: the branch for a query
\* point before the load is used everywhere
get_y_term_unbranched(Pj, xj, xi, sE, sI) ==
    RSub(RDiv(RDiv(RDiv(RMul(Pj, Pow3(xi)), R(6)), sE), sI),
         RDiv(RDiv(RDiv(RMul(RMul(Pj, xj), Pow2(xi)), R(2)), sE), sI))

\* get_y_term with the quadratic terms divided by 6, as the cubic ones are
get_y_term_sixths(Pj, xj, xi, sE, sI) ==
    IF RLt(xi, xj)
    THEN RSub(RDiv(RDiv(RDiv(RMul(Pj, Pow3(xi)), R(6)), sE), sI),
              RDiv(RDiv(RDiv(RMul(RMul(Pj, xj), Pow2(xi)), R(6)), sE), sI))
    ELSE RSub(RDiv(RDiv(RDiv(RMul(Pj, Pow3(xj)), R(6)), sE), sI),
              RDiv(RDiv(RDiv(RMul(RMul(Pj, xi), Pow2(xj)), R(6)), sE), sI))

\* the contribution of the load Pj at xj to the deflection at xi
get_y_term(Pj, xj, xi, sE, sI) ==
    IF RLt(xi, xj)
    THEN RSub(RDiv(RDiv(RDiv(RMul(Pj, Pow3(xi)), R(6)), sE), sI),
              RDiv(RDiv(RDiv(RMul(RMul(Pj, xj), Pow2(xi)), R(2)), sE), sI))
    ELSE RSub(RDiv(RDiv(RDiv(RMul(Pj, Pow3(xj)), R(6)), sE), sI),
              RDiv(RDiv(RDiv(RMul(RMul(Pj, xi), Pow2(xj)), R(2)), sE), sI))

\* result[i] = term in place of result[i] += term
get_y_overwrite(acc, term) == term

\* result[i] += term: the accumulation of one load's term
get_y_accumulate(acc, term) == RAdd(acc, term)

\* the inner loop over the loads from index j on; self.x[j] raises (TypeError on
\* None, IndexError past the end of self.x) and leaves acc as accumulated so far
RECURSIVE get_y_inner(_, _, _, _, _, _, _)
get_y_inner(sP, sx, sE, sI, xi, j, acc) ==
    IF j > Len(sP.v) THEN [acc |-> acc, raised |-> FALSE]
    ELSE IF sx.isNone \/ j > Len(sx.v) THEN [acc |-> acc, raised |-> TRUE]
    ELSE get_y_inner(sP, sx, sE, sI, xi, j + 1,
                     get_y_accumulate(acc, get_y_term(sP.v[j], sx.v[j], xi, sE, sI)))

\* the outer loop over the query positions from index i on, inside the try:
\* an exception ends both loops and keeps what result holds at that point
RECURSIVE get_y_loop(_, _, _, _, _, _, _)
get_y_store(sP, sx, sE, sI, xq, i, result, r) ==
    IF r.raised THEN [result |-> [result EXCEPT ![i] = r.acc], raised |-> TRUE]
    ELSE get_y_loop(sP, sx, sE, sI, xq, i + 1, [result EXCEPT ![i] = r.acc])

get_y_loop(sP, sx, sE, sI, xq, i, result) ==
    IF i > Len(xq) THEN [result |-> result, raised |-> FALSE]
    ELSE IF sP.isNone THEN [result |-> result, raised |-> TRUE]
    ELSE get_y_store(sP, sx, sE, sI, xq, i, result,
                     get_y_inner(sP, sx, sE, sI, xq[i], 1, result[i]))

\* the end of get_y: the message printed by the except branch and the array returned
get_y_except(r) == [result |-> r.result, printed |-> IF r.raised THEN MsgLoad ELSE ""]

\* what get_y(xq) returns and prints on an engine with these fields
get_y_result(sE, sI, sP, sx, xq) ==
    IF ~IsZero(sI)
    THEN get_y_except(get_y_loop(sP, sx, sE, sI, xq, 1, zeros_like(xq)))
    ELSE [result |-> zeros_like(xq), printed |-> MsgInertia]

----------------------------------------------------------------------------
(* get_I: the second moment of area that gives deflection y at position xq *)

\* a / y: Python floats raise ZeroDivisionError on y = 0, a numpy float does not
DivRaises(y, np) == IsZero(y) /\ ~np

\* get_I_term with the second branch's cube taken of the query position
get_I_term_cubed(Pj, xj, xq, sE, y) ==
    IF RLt(xq, xj)
    THEN RSub(RDiv(RDiv(RDiv(RMul(Pj, Pow3(xq)), R(6)), sE), y),
              RDiv(RDiv(RDiv(RMul(RMul(Pj, xj), Pow2(xq)), R(2)), sE), y))
    ELSE RSub(RDiv(RDiv(RDiv(RMul(Pj, Pow3(xq)), R(6)), sE), y),
              RDiv(RDiv(RDiv(RMul(RMul(Pj, xq), Pow2(xj)), R(2)), sE), y))

\* one load's term of get_I
get_I_term(Pj, xj, xq, sE, y) ==
    IF RLt(xq, xj)
    THEN RSub(RDiv(RDiv(RDiv(RMul(Pj, Pow3(xq)), R(6)), sE), y),
              RDiv(RDiv(RDiv(RMul(RMul(Pj, xj), Pow2(xq)), R(2)), sE), y))
    ELSE RSub(RDiv(RDiv(RDiv(RMul(Pj, Pow3(xj)), R(6)), sE), y),
              RDiv(RDiv(RDiv(RMul(RMul(Pj, xq), Pow2(xj)), R(2)), sE), y))

\* the loop over the loads from index j on, inside the try
RECURSIVE get_I_loop(_, _, _, _, _, _, _, _)
get_I_loop(sP, sx, sE, y, xq, np, j, acc) ==
    IF sP.isNone THEN [acc |-> acc, raised |-> TRUE]
    ELSE IF j > Len(sP.v) THEN [acc |-> acc, raised |-> FALSE]
    ELSE IF sx.isNone \/ j > Len(sx.v) THEN [acc |-> acc, raised |-> TRUE]
    ELSE IF DivRaises(y, np) THEN [acc |-> acc, raised |-> TRUE]
    ELSE get_I_loop(sP, sx, sE, y, xq, np, j + 1,
                    RAdd(acc, get_I_term(sP.v[j], sx.v[j], xq, sE, y)))

\* what get_I(y, xq) returns and prints; np: a numpy float takes part in the divisions
get_I_except(r) == [result |-> r.acc, printed |-> IF r.raised THEN MsgLoad ELSE ""]

get_I_result(sE, sP, sx, y, xq, np) == get_I_except(get_I_loop(sP, sx, sE, y, xq, np, 1, R(0)))

----------------------------------------------------------------------------
(* The inputs the model draws *)

SeqsUpTo(S, n) == UNION {[1..k -> S] : k \in 0..n}

Half == [n |-> 1, d |-> 2]

Lengths == {R(2)}                   \* L given to the constructor
Moduli == {R(1), R(2)}              \* E given to the constructor
Inertias == {R(0), R(1), R(2)}      \* I given to the constructor or to set_I
Magnitudes == {R(2)}                \* load magnitudes
Positions == {R(1), R(2)}           \* load positions
QueryPositions == {R(1), R(3)}      \* query positions, some beyond L
Targets == {R(0), R(-1)}            \* target deflections given to get_I as Python floats

LengthsEval == {R(1), R(2)}
ModuliEval == {R(1), R(3)}
InertiasEval == {Half, R(2)}
MagnitudesEval == {R(-1), R(2)}
QueryPositionsEval == {R(0), R(1), R(2), R(3)}

NoArgs == [P |-> <<>>, x |-> <<>>, I |-> R(0), xs |-> <<>>, y |-> R(0), xq |-> R(0), np |-> FALSE]

----------------------------------------------------------------------------
(* The operations of linhaElastica *)

\* __init__(l, e, i): the state after construction
construct(l, e, i) ==
    /\ L = l
    /\ E = e
    /\ I = i
    /\ P = None
    /\ x = None
    /\ op = "__init__"
    /\ args = NoArgs
    /\ ret = Value(<<>>)
    /\ printed = ""
    /\ exc = ""
    /\ ctor = [L |-> l, E |-> e]
    /\ lastP = None
    /\ lastx = None
    /\ lastI = i
    /\ everFailed = FALSE

Init == \E l \in Lengths, e \in Moduli, i \in Inertias : construct(l, e, i)

\* set_P that appends the new loads to the configured ones
set_P_appends(newP, newx) ==
    /\ P' = Some(P.v \o newP)
    /\ x' = Some(x.v \o newx)
    /\ op' = "set_P"
    /\ args' = [NoArgs EXCEPT !.P = newP, !.x = newx]
    /\ ret' = Self
    /\ printed' = ""
    /\ exc' = ""
    /\ lastP' = Some(newP)
    /\ lastx' = Some(newx)
    /\ UNCHANGED <<L, E, I, ctor, lastI, everFailed>>

\* set_P(newP, newx)
set_P(newP, newx) ==
    /\ P' = Some(newP)
    /\ x' = Some(newx)
    /\ op' = "set_P"
    /\ args' = [NoArgs EXCEPT !.P = newP, !.x = newx]
    /\ ret' = Self
    /\ printed' = ""
    /\ exc' = ""
    /\ lastP' = Some(newP)
    /\ lastx' = Some(newx)
    /\ UNCHANGED <<L, E, I, ctor, lastI, everFailed>>

\* set_I(newI)
set_I(newI) ==
    /\ I' = newI
    /\ op' = "set_I"
    /\ args' = [NoArgs EXCEPT !.I = newI]
    /\ ret' = Self
    /\ printed' = ""
    /\ exc' = ""
    /\ lastI' = newI
    /\ UNCHANGED <<L, E, P, x, ctor, lastP, lastx, everFailed>>

\* get_y whose failure branches drop the load set
get_y_return_resets(xq, r) ==
    /\ op' = "get_y"
    /\ args' = [NoArgs EXCEPT !.xs = xq]
    /\ ret' = Value(r.result)
    /\ printed' = r.printed
    /\ exc' = ""
    /\ everFailed' = (everFailed \/ r.printed # "")
    /\ P' = IF r.printed # "" THEN None ELSE P
    /\ x' = IF r.printed # "" THEN None ELSE x
    /\ UNCHANGED <<L, E, I, ctor, lastP, lastx, lastI>>

\* the end of get_y(xq): r is what the body computed and printed
get_y_return(xq, r) ==
    /\ op' = "get_y"
    /\ args' = [NoArgs EXCEPT !.xs = xq]
    /\ ret' = Value(r.result)
    /\ printed' = r.printed
    /\ exc' = ""
    /\ everFailed' = (everFailed \/ r.printed # "")
    /\ UNCHANGED <<L, E, I, P, x, ctor, lastP, lastx, lastI>>

\* get_y(xq)
get_y(xq) == get_y_return(xq, get_y_result(E, I, P, x, xq))

\* the end of get_I(y, xq); np: a numpy float takes part in the divisions (y is an entry of an
\* array get_y returned, or the loads were given as numpy arrays and not as lists)
get_I_return(y, xq, np, r) ==
    /\ op' = "get_I"
    /\ args' = [NoArgs EXCEPT !.y = y, !.xq = xq, !.np = np]
    /\ ret' = Value(<<r.result>>)
    /\ printed' = r.printed
    /\ exc' = ""
    /\ everFailed' = (everFailed \/ r.printed # "")
    /\ UNCHANGED <<L, E, I, P, x, ctor, lastP, lastx, lastI>>

\* get_I(y, xq)
get_I(y, xq, np) == get_I_return(y, xq, np, get_I_result(E, P, x, y, xq, np))

\* the deflections the caller holds: the entries of the array the last get_y returned
Held == IF op = "get_y" THEN {ret.val[k] : k \in 1..Len(ret.val)} ELSE {}

LoadMagnitudes == SeqsUpTo(Magnitudes, MaxLoads)

LoadPositions == SeqsUpTo(Positions, MaxLoads)

Queries == SeqsUpTo(QueryPositions, MaxQuery)

\* any caller: any call, in any order, with any arguments
Next ==
    \/ \E newP \in LoadMagnitudes, newx \in LoadPositions : set_P(newP, newx)
    \/ \E newI \in Inertias : set_I(newI)
    \/ \E xq \in Queries : get_y(xq)
    \/ \E y \in Targets, xq \in QueryPositions, np \in BOOLEAN : get_I(y, xq, np)
    \/ \E y \in Held, xq \in QueryPositions : get_I(y, xq, TRUE)

Spec == Init /\ [][Next]_vars

LoadsEval == UNION {[1..n -> MagnitudesEval] \X [1..n -> Positions] : n \in 0..MaxLoadsEval}

QueriesEval == SeqsUpTo(QueryPositionsEval, MaxQueryEval)

\* the caller under __main__, with any beam, loads and query: it constructs the
\* engine with its I, configures a well-formed load set, evaluates the deflection
\* and inverts it at a position it evaluated
InitEval == \E l \in LengthsEval, e \in ModuliEval, i \in InertiasEval : construct(l, e, i)

NextEval ==
    \/ /\ op = "__init__"
       /\ \E ld \in LoadsEval : set_P(ld[1], ld[2])
    \/ /\ op = "set_P"
       /\ \E xq \in QueriesEval : get_y(xq)
    \/ /\ op = "get_y"
       /\ \E k \in 1..Len(ret.val) : get_I(ret.val[k], args.xs[k], TRUE)

SpecEval == InitEval /\ [][NextEval]_vars

----------------------------------------------------------------------------
(* Vocabulary of the properties *)

\* the load set is populated and its two sequences have equal length
ValidLoads == ~P.isNone /\ ~x.isNone /\ Len(P.v) = Len(x.v)

SixEI == RMul(RMul(R(6), E), I)

TwoEI == RMul(RMul(R(2), E), I)

\* the closed form of one load's deflection at xi, as the specification writes it
DeflectionAt(Pj, xj, xi) ==
    IF RLt(xi, xj)
    THEN RSub(RDiv(RMul(Pj, Pow3(xi)), SixEI), RDiv(RMul(RMul(Pj, xj), Pow2(xi)), TwoEI))
    ELSE RSub(RDiv(RMul(Pj, Pow3(xj)), SixEI), RDiv(RMul(RMul(Pj, xi), Pow2(xj)), TwoEI))

\* the sum of the closed forms of the loads 1..j at xi
RECURSIVE Superposition(_, _)
Superposition(j, xi) ==
    IF j = 0 THEN R(0)
    ELSE RAdd(Superposition(j - 1, xi), DeflectionAt(P.v[j], x.v[j], xi))

\* one load's term of I * y: the closed form with E alone in the denominators
MomentAt(Pj, xj, xi) ==
    IF RLt(xi, xj)
    THEN RSub(RDiv(RMul(Pj, Pow3(xi)), RMul(R(6), E)), RDiv(RMul(RMul(Pj, xj), Pow2(xi)), RMul(R(2), E)))
    ELSE RSub(RDiv(RMul(Pj, Pow3(xj)), RMul(R(6), E)), RDiv(RMul(RMul(Pj, xi), Pow2(xj)), RMul(R(2), E)))

RECURSIVE MomentSum(_, _)
MomentSum(j, xi) ==
    IF j = 0 THEN R(0)
    ELSE RAdd(MomentSum(j - 1, xi), MomentAt(P.v[j], x.v[j], xi))

\* get_y([xi])[0] on an engine with this E and I whose load set is the loads a..b
\* of the current one
AloneAt(a, b, xi) ==
    get_y_result(E, I, Some(SubSeq(P.v, a, b)), Some(SubSeq(x.v, a, b)), <<xi>>).result[1]

\* the last call was an evaluation
Evaluated == op \in {"get_y", "get_I"}

----------------------------------------------------------------------------
(* C1..C4, under SpecEval *)

C2_RoundTripRecoversI ==
    (/\ op = "get_I" /\ ~IsZero(I) /\ ValidLoads
     /\ ~IsZero(args.y)
     /\ REq(args.y, AloneAt(1, Len(P.v), args.xq))) =>
        /\ REq(ret.val[1], I)
        /\ REq(RMul(I, args.y), MomentSum(Len(P.v), args.xq))

C2_Witness ==
    /\ op = "get_I" /\ ValidLoads /\ Len(P.v) = 2
    /\ I = Half /\ E = R(3)
    /\ ~IsZero(args.y) /\ REq(args.y, AloneAt(1, Len(P.v), args.xq))
    /\ RLt(args.xq, x.v[1]) /\ ~RLt(args.xq, x.v[2])
    /\ ret.val[1] = Half

\* C3: superposition is linear: get_y([x]) with the concatenation of two load sets A
\* and B equals get_y([x]) with A alone plus get_y([x]) with B alone, for every way
\* of cutting the configured load set into A followed by B.
C3_SuperpositionLinear ==
    (op = "get_y" /\ ~IsZero(I) /\ ValidLoads /\ Len(args.xs) = 1) =>
        \A k \in 0..Len(P.v) :
            REq(ret.val[1],
                RAdd(AloneAt(1, k, args.xs[1]), AloneAt(k + 1, Len(P.v), args.xs[1])))

C3_Witness ==
    /\ op = "get_y" /\ ~IsZero(I) /\ ValidLoads /\ Len(args.xs) = 1
    /\ Len(P.v) = 2
    /\ ~IsZero(AloneAt(1, 1, args.xs[1])) /\ ~IsZero(AloneAt(2, 2, args.xs[1]))
    /\ AloneAt(1, 1, args.xs[1]) # AloneAt(2, 2, args.xs[1])
    /\ ~IsZero(ret.val[1])

\* C4: with non-zero I and exactly one load P at position L, get_y([L])[0] is
\* -P*L^3/(3*E*I).
C4_TipFormula ==
    (/\ op = "get_y" /\ ~IsZero(I) /\ ValidLoads
     /\ Len(P.v) = 1 /\ x.v[1] = L /\ args.xs = <<L>>) =>
        REq(ret.val[1], RDiv(RNeg(RMul(P.v[1], Pow3(L))), RMul(RMul(R(3), E), I)))

C4_Witness ==
    /\ op = "get_y" /\ ValidLoads
    /\ Len(P.v) = 1 /\ x.v[1] = L /\ args.xs = <<L>>
    /\ L = R(2) /\ E = R(3) /\ I = Half /\ P.v[1] = R(2)
    /\ ret.val[1] = Frac(-32, 9)

----------------------------------------------------------------------------
(* C5..C10, under Spec *)

\* C5: get_y while I is unset or zero fails with a MissingStiffness condition that
\* reaches the caller.
C5_MissingStiffnessReachesCaller ==
    (op = "get_y" /\ IsZero(I)) => exc = "MissingStiffness"

\* C6: get_y (with I set) or get_I while the load set is unset, or while its two
\* sequences differ in length, fails with a MissingOrMalformedLoadConfiguration
\* condition instead of returning a numeric result.
C6_MalformedLoadsReachCaller ==
    (/\ Evaluated
     /\ op = "get_y" => ~IsZero(I)
     /\ ~ValidLoads) => exc = "MissingOrMalformedLoadConfiguration"

\* C7: get_I(y, x) with y = 0 on an engine with a populated load set fails with an
\* InvalidTargetDeflection condition and returns no value.
C7_ZeroTargetReachesCaller ==
    (op = "get_I" /\ IsZero(args.y) /\ ValidLoads /\ Len(P.v) >= 1) =>
        exc = "InvalidTargetDeflection"

\* C8: an evaluation, failed or not, leaves L, E, I and the load set as they were,
\* and on a valid configuration get_y(xs) returns what get_y(xs) returns on a fresh
\* engine constructed with that L, E and I and given that load set, whatever calls
\* and failed evaluations came before.
C8_EvaluationsLeaveEngineUsable ==
    [][(op' \in {"get_y", "get_I"}) =>
          /\ fields' = fields
          /\ (op' = "get_y" /\ ValidLoads' /\ ~IsZero(I')) =>
                 /\ printed' = ""
                 /\ ret'.val = get_y_result(E', I', Some(P'.v), Some(x'.v), args'.xs).result]_vars

\* a get_y that succeeds with a non-zero deflection after an evaluation that failed
C8_Witness ==
    /\ op = "get_y" /\ everFailed /\ printed = ""
    /\ ValidLoads /\ Len(P.v) = 2 /\ ~IsZero(I)
    /\ Len(ret.val) = 2 /\ ~IsZero(ret.val[1]) /\ ~IsZero(ret.val[2])

\* C9: set_P replaces the load set by its arguments and leaves L, E and I; set_I
\* replaces I and leaves L, E and the load set; both return the engine; so every
\* evaluation is the one of the constructor's E, the arguments of the last set_P
\* and the last I given.
C9_SettersReplaceAndFrame ==
    [][/\ op' = "set_P" =>
            /\ P' = Some(args'.P) /\ x' = Some(args'.x)
            /\ <<L', E', I'>> = <<L, E, I>>
            /\ ret' = Self
       /\ op' = "set_I" =>
            /\ I' = args'.I
            /\ <<L', E', P', x'>> = <<L, E, P, x>>
            /\ ret' = Self
       /\ op' = "get_y" =>
            ret'.val = get_y_result(ctor.E, lastI, lastP, lastx, args'.xs).result
       /\ op' = "get_I" =>
            ret'.val[1] = get_I_result(ctor.E, lastP, lastx, args'.y, args'.xq, args'.np).result
       /\ L' = ctor.L]_vars

\* set_I has replaced I after a set_P whose two loads are still the load set
C9_Witness ==
    /\ op = "set_I" /\ ret = Self /\ I = R(2) /\ args.I = R(2)
    /\ ~P.isNone /\ P.v = <<R(2), R(2)>> /\ x.v = <<R(1), R(2)>>
    /\ everFailed

\* C10: get_y is all-or-nothing: the array returned is either the complete
\* superposition sum over every configured load for every position of xs, or all
\* zeros of the length of xs.
C10_AllOrNothing ==
    op = "get_y" =>
        \/ ret.val = zeros_like(args.xs)
        \/ /\ ~IsZero(I) /\ ~P.isNone /\ ~x.isNone /\ Len(P.v) <= Len(x.v)
           /\ Len(ret.val) = Len(args.xs)
           /\ \A i \in 1..Len(args.xs) : REq(ret.val[i], Superposition(Len(P.v), args.xs[i]))

====
